---- MODULE Spec2Model ----
(***************************************************************************)
(* Model of chonkie's cloud CodeChunker                                    *)
(* (src/src/chonkie/cloud/chunker/code.py): the constructor with its key   *)
(* resolution, chunk-size validation and liveness probe, and chunk() with  *)
(* its payload, its single POST, the status check and the mapping of the   *)
(* JSON body to CodeChunk records.                                         *)
(*                                                                         *)
(* The two blocking HTTP calls split each operation in two steps: the      *)
(* code up to the request, and the code that runs once the response is     *)
(* there.  The service is the environment: it answers with any status and  *)
(* any body of the bounded universe below.                                 *)
(***************************************************************************)
EXTENDS Integers, Sequences, FiniteSets, TLC

(***************************************************************************)
(* Bounds of the model.                                                    *)
(***************************************************************************)
\* longest batch (list of texts) passed to chunk
MaxTexts == 2
\* longest top-level array in a response body
MaxBody == 2
\* number of chunk calls made on one client
MaxCalls == 2

(***************************************************************************)
(* Python values.                                                          *)
(***************************************************************************)
\* Python's None (an unset argument, os.getenv of an unset variable)
None == "<None>"

\* truth value of an Optional[str]: None and "" are falsy
Truthy(s) == s # None /\ s # ""

\* `a or b` written as `a if a is not None else b`: an empty string wins
PyOr_isNotNone(a, b) == IF a # None THEN a ELSE b

\* the value of `a or b`
PyOr(a, b) == IF Truthy(a) THEN a ELSE b

\* A parsed JSON value, as Python holds it: a tag and a sequence.
\*   arr: the elements; str: the characters; obj: the <<key, value>> pairs in
\*   order, each key a sequence of characters; null: nothing.
\* raw is a response text that is not JSON at all.
JArr(items) == [t |-> "arr", v |-> items]
JStr(chars) == [t |-> "str", v |-> chars]
JObj(pairs) == [t |-> "obj", v |-> pairs]
JNull == [t |-> "null", v |-> <<>>]
RawText(s) == [t |-> "raw", v |-> <<s>>]

\* outcome of an evaluation that may raise
Ok(x) == [raised |-> FALSE, value |-> x, exc |-> None]
Raise(e) == [raised |-> TRUE, value |-> <<>>, exc |-> e]

\* what a Python for loop gets from a value: the elements of a list, the
\* one-character strings of a str, the keys of a dict; None is not iterable
Iter(x) ==
    CASE x.t = "arr" -> Ok(x.v)
      [] x.t = "str" -> Ok([i \in 1..Len(x.v) |-> JStr(<<x.v[i]>>)])
      [] x.t = "obj" -> Ok([i \in 1..Len(x.v) |-> JStr(x.v[i][1])])
      [] OTHER -> Raise("TypeError")

(***************************************************************************)
(* CodeChunk records (chonkie.types, outside this file).                   *)
(***************************************************************************)
K_text == <<"t", "e", "x", "t">>
K_start_index == <<"s", "t", "a", "r", "t", "_", "i", "n", "d", "e", "x">>
K_end_index == <<"e", "n", "d", "_", "i", "n", "d", "e", "x">>
K_token_count == <<"t", "o", "k", "e", "n", "_", "c", "o", "u", "n", "t">>

RequiredFields == {K_text, K_start_index, K_end_index, K_token_count}

Keys(d) == {d.v[i][1] : i \in 1..Len(d.v)}

Get(d, k) == LET i == CHOOSE j \in 1..Len(d.v) : d.v[j][1] = k IN d.v[i][2]

\* CodeChunk.from_dict: a record out of a JSON object that has the fields of
\* a chunk; anything else raises
from_dict(d) ==
    IF d.t # "obj" THEN Raise("TypeError")
    ELSE IF ~(RequiredFields \subseteq Keys(d)) THEN Raise("TypeError")
    ELSE Ok([text |-> Get(d, K_text),
             start_index |-> Get(d, K_start_index),
             end_index |-> Get(d, K_end_index),
             token_count |-> Get(d, K_token_count)])

(***************************************************************************)
(* The inputs: constructor arguments, environment, texts, responses.       *)
(***************************************************************************)
Tokenizers == {"gpt2", "character"}
ChunkSizes == {-1, 0, 512}
Languages == {"auto", "python"}
ApiKeyArgs == {None, "", "key-arg"}
EnvKeys == {None, "", "key-env"}

Args == [tokenizer_or_token_counter : Tokenizers, chunk_size : ChunkSizes,
         language : Languages, api_key : ApiKeyArgs]

Texts == {"a", "b"}

SeqsUpTo(S, n) == UNION {[1..k -> S] : k \in 0..n}

\* chunk's argument: a str or a list of str
Inputs == [isList : {FALSE}, text : {<<s>> : s \in Texts}]
          \cup [isList : {TRUE}, text : SeqsUpTo(Texts, MaxTexts)]

ChunkObject(text, start, end, count) ==
    JObj(<< <<K_text, text>>, <<K_start_index, start>>,
            <<K_end_index, end>>, <<K_token_count, count>> >>)

ChunkA == ChunkObject("def f():", 0, 8, 3)
ChunkB == ChunkObject("  pass", 8, 14, 2)
\* a chunk object without its token_count
BadObj == JObj(<< <<K_text, "x">>, <<K_start_index, 0>>, <<K_end_index, 1>> >>)
EmptyObj == JObj(<<>>)
EmptyKeyObj == JObj(<< <<(<<>>), 0>> >>)
EmptyStr == JStr(<<>>)

InnerArrays == {JArr(<<>>), JArr(<<ChunkA, ChunkB>>), JArr(<<ChunkA, BadObj>>)}

BodyElems == InnerArrays \cup {ChunkA, ChunkB, BadObj, EmptyObj}

Bodies == {JArr(s) : s \in SeqsUpTo(BodyElems, MaxBody)}
          \cup {EmptyObj, EmptyKeyObj, EmptyStr, JStr(<<"o", "k">>), JNull,
                RawText("server error"), RawText("")}

ErrorBodies == {RawText("server error"), RawText(""), JArr(<<ChunkA>>)}

Statuses == {200, 204, 404, 500}

Responses == [status_code : {200}, text : Bodies]
             \cup [status_code : Statuses \ {200}, text : ErrorBodies]

(***************************************************************************)
(* Errors.  The code raises ValueError everywhere; the message tells the   *)
(* four failures apart.  A message is the sequence of the parts of its     *)
(* f-string.                                                               *)
(***************************************************************************)
ValueError(msg, cause) == [type |-> "ValueError", msg |-> msg, cause |-> cause]

NoError == [type |-> "none", msg |-> <<>>, cause |-> None]

MsgNoKey == "No API key provided. Please set the CHONKIE_API_KEY environment variable or pass an API key to the CodeChunker constructor."
MsgChunkSize == "Chunk size must be greater than 0."
MsgDown == "Oh no! You caught Chonkie at a bad time. It seems to be down right now. Please try again in a short while. If the issue persists, please contact support at support@chonkie.ai or raise an issue on GitHub."
MsgApi == "Error from the Chonkie API: "
MsgParse == "Error parsing the response: "

BASE_URL == "https://api.chonkie.ai"
VERSION == "v1"

(***************************************************************************)
(* The mapping of a response body (chunk, lines 100-116).                  *)
(***************************************************************************)
\* response.json(): the parsed body, or JSONDecodeError for a text that is
\* not JSON
json(resp) == IF resp.text.t = "raw" THEN Raise("JSONDecodeError") ELSE Ok(resp.text)

\* the chunk loop with insert(0, ...) in place of append
RECURSIVE MapChunks_prepend(_, _)
MapChunks_prepend(items, acc) ==
    IF items = <<>> THEN Ok(acc)
    ELSE LET c == from_dict(Head(items)) IN
         IF c.raised THEN c
         ELSE MapChunks_prepend(Tail(items), <<c.value>> \o acc)

\* for chunk in items: acc.append(CodeChunk.from_dict(chunk))
RECURSIVE MapChunks(_, _)
MapChunks(items, acc) ==
    IF items = <<>> THEN Ok(acc)
    ELSE LET c == from_dict(Head(items)) IN
         IF c.raised THEN c
         ELSE MapChunks(Tail(items), Append(acc, c.value))

\* the batch loop with insert(0, ...) in place of append
RECURSIVE MapBatch_prepend(_, _)
MapBatch_prepend(items, acc) ==
    IF items = <<>> THEN Ok(acc)
    ELSE LET chunk_list == Iter(Head(items)) IN
         IF chunk_list.raised THEN chunk_list
         ELSE LET curr_chunks == MapChunks(chunk_list.value, <<>>) IN
              IF curr_chunks.raised THEN curr_chunks
              ELSE MapBatch_prepend(Tail(items), <<curr_chunks.value>> \o acc)

\* for chunk_list in items: map chunk_list, batch_chunks.append(curr_chunks)
RECURSIVE MapBatch(_, _)
MapBatch(items, acc) ==
    IF items = <<>> THEN Ok(acc)
    ELSE LET chunk_list == Iter(Head(items)) IN
         IF chunk_list.raised THEN chunk_list
         ELSE LET curr_chunks == MapChunks(chunk_list.value, <<>>) IN
              IF curr_chunks.raised THEN curr_chunks
              ELSE MapBatch(Tail(items), Append(acc, curr_chunks.value))

\* the body of the try block
ParseResponse(text, resp) ==
    LET result == json(resp) IN
    IF result.raised THEN result
    ELSE LET items == Iter(result.value) IN
         IF items.raised THEN items
         ELSE IF text.isList THEN MapBatch(items.value, <<>>)
         ELSE MapChunks(items.value, <<>>)

(***************************************************************************)
(* State.                                                                  *)
(***************************************************************************)
VARIABLES
    pc,        \* "new", "probing" (GET in flight), "failed" (__init__ raised),
               \* "ready", "posting" (POST in flight)
    args,      \* the constructor's arguments
    env,       \* the value of CHONKIE_API_KEY
    self,      \* the attributes set on the instance so far
    gets,      \* GET requests issued
    posts,     \* POST requests issued
    calls,     \* chunk calls started
    request,   \* the last request put on the wire
    probe,     \* status of the liveness probe's response, 0 before it
    text,      \* argument of the current or last chunk call
    response,  \* response to the last POST
    parsed,    \* response.json() was called in the current or last chunk call
    raised,    \* the exception the last operation raised
    ret        \* the value the last chunk call returned

vars == <<pc, args, env, self, gets, posts, calls, request, probe, text,
          response, parsed, raised, ret>>

NoRequest == [method |-> "none"]
NoResponse == [status_code |-> 0, text |-> RawText("")]
NoText == [isList |-> FALSE, text |-> <<>>]
NoReturn == [some |-> FALSE, value |-> <<>>]
Return(x) == [some |-> TRUE, value |-> x]

Init ==
    /\ pc = "new"
    /\ args \in Args
    /\ env \in EnvKeys
    /\ self = <<>>
    /\ gets = 0 /\ posts = 0 /\ calls = 0
    /\ request = NoRequest
    /\ probe = 0
    /\ text = NoText
    /\ response = NoResponse
    /\ parsed = FALSE
    /\ raised = NoError
    /\ ret = NoReturn

(***************************************************************************)
(* CodeChunker.__init__                                                    *)
(***************************************************************************)
\* __init__ rejecting only a negative chunk_size (< in place of <=)
init_start_negativeOnly ==
    /\ pc = "new"
    /\ LET api_key == PyOr(args.api_key, env) IN
       IF ~Truthy(api_key) THEN
           /\ self' = [api_key |-> api_key]
           /\ raised' = ValueError(<<MsgNoKey>>, None)
           /\ pc' = "failed"
           /\ UNCHANGED <<gets, request>>
       ELSE IF args.chunk_size < 0 THEN
           /\ self' = [api_key |-> api_key]
           /\ raised' = ValueError(<<MsgChunkSize>>, None)
           /\ pc' = "failed"
           /\ UNCHANGED <<gets, request>>
       ELSE
           /\ self' = [api_key |-> api_key,
                       tokenizer_or_token_counter |-> args.tokenizer_or_token_counter,
                       chunk_size |-> args.chunk_size,
                       language |-> args.language]
           /\ request' = [method |-> "GET", url |-> <<BASE_URL, "/">>]
           /\ gets' = gets + 1
           /\ pc' = "probing"
           /\ UNCHANGED raised
    /\ UNCHANGED <<args, env, posts, calls, probe, text, response, parsed, ret>>

\* __init__ validating chunk_size before it resolves the key
init_start_sizeFirst ==
    /\ pc = "new"
    /\ LET api_key == PyOr(args.api_key, env) IN
       IF args.chunk_size <= 0 THEN
           /\ self' = <<>>
           /\ raised' = ValueError(<<MsgChunkSize>>, None)
           /\ pc' = "failed"
           /\ UNCHANGED <<gets, request>>
       ELSE IF ~Truthy(api_key) THEN
           /\ self' = [api_key |-> api_key]
           /\ raised' = ValueError(<<MsgNoKey>>, None)
           /\ pc' = "failed"
           /\ UNCHANGED <<gets, request>>
       ELSE
           /\ self' = [api_key |-> api_key,
                       tokenizer_or_token_counter |-> args.tokenizer_or_token_counter,
                       chunk_size |-> args.chunk_size,
                       language |-> args.language]
           /\ request' = [method |-> "GET", url |-> <<BASE_URL, "/">>]
           /\ gets' = gets + 1
           /\ pc' = "probing"
           /\ UNCHANGED raised
    /\ UNCHANGED <<args, env, posts, calls, probe, text, response, parsed, ret>>

\* lines 38-56: resolve the key, validate, assign, send the probe
init_start ==
    /\ pc = "new"
    /\ LET api_key == PyOr(args.api_key, env) IN
       IF ~Truthy(api_key) THEN
           /\ self' = [api_key |-> api_key]
           /\ raised' = ValueError(<<MsgNoKey>>, None)
           /\ pc' = "failed"
           /\ UNCHANGED <<gets, request>>
       ELSE IF args.chunk_size <= 0 THEN
           /\ self' = [api_key |-> api_key]
           /\ raised' = ValueError(<<MsgChunkSize>>, None)
           /\ pc' = "failed"
           /\ UNCHANGED <<gets, request>>
       ELSE
           /\ self' = [api_key |-> api_key,
                       tokenizer_or_token_counter |-> args.tokenizer_or_token_counter,
                       chunk_size |-> args.chunk_size,
                       language |-> args.language]
           /\ request' = [method |-> "GET", url |-> <<BASE_URL, "/">>]
           /\ gets' = gets + 1
           /\ pc' = "probing"
           /\ UNCHANGED raised
    /\ UNCHANGED <<args, env, posts, calls, probe, text, response, parsed, ret>>

\* the probe failing on server errors only (>= 500 in place of != 200)
init_probed_serverErrors(status_code) ==
    /\ pc = "probing"
    /\ probe' = status_code
    /\ IF status_code >= 500 THEN
           /\ raised' = ValueError(<<MsgDown>>, None)
           /\ pc' = "failed"
       ELSE
           /\ pc' = "ready"
           /\ UNCHANGED raised
    /\ UNCHANGED <<args, env, self, gets, posts, calls, request, text, response,
                   parsed, ret>>

\* lines 56-62: the probe's response arrives
init_probed(status_code) ==
    /\ pc = "probing"
    /\ probe' = status_code
    /\ IF status_code # 200 THEN
           /\ raised' = ValueError(<<MsgDown>>, None)
           /\ pc' = "failed"
       ELSE
           /\ pc' = "ready"
           /\ UNCHANGED raised
    /\ UNCHANGED <<args, env, self, gets, posts, calls, request, text, response,
                   parsed, ret>>

(***************************************************************************)
(* CodeChunker.chunk                                                       *)
(***************************************************************************)
\* chunk sending the default "auto" under the legacy key lang
chunk_autoLang(t) ==
    /\ pc = "ready"
    /\ calls < MaxCalls
    /\ LET payload == [text |-> t,
                       tokenizer_or_token_counter |-> self.tokenizer_or_token_counter,
                       chunk_size |-> self.chunk_size,
                       language |-> self.language,
                       lang |-> "auto",
                       include_nodes |-> FALSE] IN
       request' = [method |-> "POST",
                   url |-> <<BASE_URL, "/", VERSION, "/chunk/code">>,
                   json |-> payload,
                   headers |-> [Authorization |-> <<"Bearer ", self.api_key>>]]
    /\ posts' = posts + 1
    /\ calls' = calls + 1
    /\ text' = t
    /\ response' = NoResponse
    /\ parsed' = FALSE
    /\ raised' = NoError
    /\ ret' = NoReturn
    /\ pc' = "posting"
    /\ UNCHANGED <<args, env, self, gets, probe>>

\* lines 77-92: build the payload and send the POST
chunk(t) ==
    /\ pc = "ready"
    /\ calls < MaxCalls
    /\ LET payload == [text |-> t,
                       tokenizer_or_token_counter |-> self.tokenizer_or_token_counter,
                       chunk_size |-> self.chunk_size,
                       language |-> self.language,
                       lang |-> self.language,
                       include_nodes |-> FALSE] IN
       request' = [method |-> "POST",
                   url |-> <<BASE_URL, "/", VERSION, "/chunk/code">>,
                   json |-> payload,
                   headers |-> [Authorization |-> <<"Bearer ", self.api_key>>]]
    /\ posts' = posts + 1
    /\ calls' = calls + 1
    /\ text' = t
    /\ response' = NoResponse
    /\ parsed' = FALSE
    /\ raised' = NoError
    /\ ret' = NoReturn
    /\ pc' = "posting"
    /\ UNCHANGED <<args, env, self, gets, probe>>

\* chunk posting a second time when the first answer is not 200
chunk_responded_retry(resp) ==
    /\ pc = "posting"
    /\ response' = resp
    /\ IF resp.status_code # 200 THEN
           /\ posts' = posts + 1
           /\ raised' = ValueError(<<MsgApi, resp.status_code, " ", resp.text>>, None)
           /\ ret' = NoReturn
           /\ parsed' = FALSE
       ELSE LET result == ParseResponse(text, resp) IN
           /\ posts' = posts
           /\ parsed' = TRUE
           /\ IF result.raised THEN
                  /\ raised' = ValueError(<<MsgParse, result.exc>>, result.exc)
                  /\ ret' = NoReturn
              ELSE
                  /\ raised' = NoError
                  /\ ret' = Return(result.value)
    /\ pc' = "ready"
    /\ UNCHANGED <<args, env, self, gets, calls, request, probe, text>>

\* chunk leaving the client unusable after a response it cannot parse
chunk_responded_poisoned(resp) ==
    /\ pc = "posting"
    /\ response' = resp
    /\ IF resp.status_code # 200 THEN
           /\ raised' = ValueError(<<MsgApi, resp.status_code, " ", resp.text>>, None)
           /\ ret' = NoReturn
           /\ parsed' = FALSE
           /\ pc' = "ready"
       ELSE LET result == ParseResponse(text, resp) IN
           /\ parsed' = TRUE
           /\ IF result.raised THEN
                  /\ raised' = ValueError(<<MsgParse, result.exc>>, result.exc)
                  /\ ret' = NoReturn
                  /\ pc' = "failed"
              ELSE
                  /\ raised' = NoError
                  /\ ret' = Return(result.value)
                  /\ pc' = "ready"
    /\ UNCHANGED <<args, env, self, gets, posts, calls, request, probe, text>>

\* lines 94-116: the POST's response arrives
chunk_responded(resp) ==
    /\ pc = "posting"
    /\ response' = resp
    /\ IF resp.status_code # 200 THEN
           /\ raised' = ValueError(<<MsgApi, resp.status_code, " ", resp.text>>, None)
           /\ ret' = NoReturn
           /\ parsed' = FALSE
       ELSE LET result == ParseResponse(text, resp) IN
           /\ parsed' = TRUE
           /\ IF result.raised THEN
                  /\ raised' = ValueError(<<MsgParse, result.exc>>, result.exc)
                  /\ ret' = NoReturn
              ELSE
                  /\ raised' = NoError
                  /\ ret' = Return(result.value)
    /\ pc' = "ready"
    /\ UNCHANGED <<args, env, self, gets, posts, calls, request, probe, text>>

\* lines 118-120: __call__ is chunk
call(t) == chunk(t)

Next ==
    \/ init_start
    \/ \E status_code \in Statuses : init_probed(status_code)
    \/ \E t \in Inputs : chunk(t)
    \/ \E t \in Inputs : call(t)
    \/ \E resp \in Responses : chunk_responded(resp)

Spec == Init /\ [][Next]_vars

(***************************************************************************)
(* Vocabulary of the properties.                                           *)
(***************************************************************************)
\* a chunk call has returned or raised: text, response, raised and ret are
\* the call's
Done == pc = "ready" /\ calls > 0

Ready == pc \in {"ready", "posting"}

IsConfigurationError(e) ==
    e.type = "ValueError" /\ e.msg \in {<<MsgNoKey>>, <<MsgChunkSize>>}

IsServiceUnavailableError(e) == e.type = "ValueError" /\ e.msg = <<MsgDown>>

IsRemoteRequestError(e) ==
    e.type = "ValueError" /\ Len(e.msg) = 4 /\ e.msg[1] = MsgApi

IsResponseParseError(e) ==
    e.type = "ValueError" /\ Len(e.msg) = 2 /\ e.msg[1] = MsgParse /\ e.cause # None

IsChunkObject(d) == d.t = "obj" /\ RequiredFields \subseteq Keys(d)

IsChunkArray(b) == b.t = "arr" /\ \A j \in 1..Len(b.v) : IsChunkObject(b.v[j])

IsBatchArray(b) == b.t = "arr" /\ \A i \in 1..Len(b.v) : IsChunkArray(b.v[i])

CodeChunkOf(d) ==
    [text |-> Get(d, K_text), start_index |-> Get(d, K_start_index),
     end_index |-> Get(d, K_end_index), token_count |-> Get(d, K_token_count)]

(***************************************************************************)
(* C1                                                                      *)
(***************************************************************************)
\* C1 as stated: a successful chunk call on a list of N texts returns exactly
\* N inner sequences, whatever body the service answered with, and inner
\* sequence i holds the chunks of response element i in order.
C1_LengthIsN ==
    (Done /\ text.isList /\ response.status_code = 200 /\ ret.some) =>
        /\ Len(ret.value) = Len(text.text)
        /\ response.text.t = "arr"
        /\ \A i \in 1..Len(ret.value) :
               /\ i <= Len(response.text.v)
               /\ IsChunkArray(response.text.v[i])
               /\ ret.value[i] = [j \in 1..Len(response.text.v[i].v) |->
                                      CodeChunkOf(response.text.v[i].v[j])]

\* C1 amended: a successful chunk call on a list of texts returns exactly one
\* inner sequence per element of the response body, in the order received,
\* and inner sequence i holds, in order, the chunks mapped from the elements
\* of response element i; the length is N only when the body has N elements.
\* (Elements are what Python iterates: a dict or str body counts its keys or
\* characters.)
C1_LengthIsResponseLength ==
    (Done /\ text.isList /\ response.status_code = 200 /\ ret.some) =>
        LET items == Iter(response.text) IN
        /\ ~items.raised
        /\ Len(ret.value) = Len(items.value)
        /\ \A i \in 1..Len(items.value) :
               LET inner == Iter(items.value[i]) IN
               /\ ~inner.raised
               /\ Len(ret.value[i]) = Len(inner.value)
               /\ \A j \in 1..Len(inner.value) :
                      /\ IsChunkObject(inner.value[j])
                      /\ ret.value[i][j] = CodeChunkOf(inner.value[j])

\* a batch of one text answered with two inner arrays, the second with two
\* different chunks
C1_Witness ==
    /\ Done /\ text.isList /\ ret.some
    /\ Len(text.text) = 1
    /\ Len(ret.value) = 2
    /\ Len(ret.value[1]) = 0
    /\ Len(ret.value[2]) = 2
    /\ ret.value[2][1] # ret.value[2][2]

(***************************************************************************)
(* C2                                                                      *)
(***************************************************************************)
\* C2: for a str input and a 200 response whose body is an array of k valid
\* chunk objects, chunk returns k CodeChunk records, record j mapped from
\* element j.
C2_FlatOrder ==
    (Done /\ ~text.isList /\ response.status_code = 200
          /\ IsChunkArray(response.text)) =>
        /\ raised = NoError
        /\ ret.some
        /\ Len(ret.value) = Len(response.text.v)
        /\ \A j \in 1..Len(response.text.v) :
               ret.value[j] = CodeChunkOf(response.text.v[j])

C2_Witness ==
    /\ Done /\ ~text.isList /\ ret.some
    /\ Len(ret.value) = 2
    /\ ret.value[1] = CodeChunkOf(ChunkB)
    /\ ret.value[2] = CodeChunkOf(ChunkA)

(***************************************************************************)
(* C3                                                                      *)
(***************************************************************************)
\* C3: once the liveness probe has answered with a status other than 200,
\* construction has failed with the service-unavailable error, the client is
\* never ready and no POST is ever issued.
C3_ProbeFailure ==
    (probe # 0 /\ probe # 200) =>
        /\ pc = "failed"
        /\ IsServiceUnavailableError(raised)
        /\ posts = 0 /\ calls = 0
        /\ request.method # "POST"

C3_Witness == probe = 204 /\ pc = "failed" /\ gets = 1

(***************************************************************************)
(* C4                                                                      *)
(***************************************************************************)
\* C4: a chunk call whose POST is answered with a status other than 200
\* raises the remote-request error carrying that status and the body text
\* unchanged, without parsing the response and without a second request:
\* one POST per chunk call.
C4_RemoteError ==
    (Done /\ response.status_code # 200) =>
        /\ IsRemoteRequestError(raised)
        /\ raised.msg[2] = response.status_code
        /\ raised.msg[4] = response.text
        /\ ~parsed
        /\ ~ret.some
        /\ posts = calls

C4_Witness ==
    /\ Done /\ calls = 2
    /\ response = [status_code |-> 500, text |-> RawText("server error")]
    /\ raised.msg = <<MsgApi, 500, " ", RawText("server error")>>

(***************************************************************************)
(* C5                                                                      *)
(***************************************************************************)
\* C5 as stated: on a 200 response chunk is all-or-nothing: a body that is
\* not JSON, that holds a chunk object missing a field, or whose shape does
\* not match the input kind (array of arrays of chunk objects for a list,
\* array of chunk objects for a str) raises the parse error with its cause
\* and returns nothing; any other body is returned mapped in full.
C5_AllOrNothing ==
    (Done /\ response.status_code = 200) =>
        IF response.text.t # "raw"
           /\ (IF text.isList THEN IsBatchArray(response.text)
                              ELSE IsChunkArray(response.text))
        THEN raised = NoError /\ ret.some
        ELSE IsResponseParseError(raised) /\ ~ret.some

(***************************************************************************)
(* C6                                                                      *)
(***************************************************************************)
\* C6: a non-empty api_key argument is the key; otherwise the value of
\* CHONKIE_API_KEY is; with neither non-empty, construction fails with the
\* missing-key configuration error; every ready client has a non-empty key.
C6_KeyResolution ==
    /\ pc # "new" =>
        /\ Truthy(args.api_key) => self.api_key = args.api_key
        /\ (~Truthy(args.api_key) /\ Truthy(env)) => self.api_key = env
        /\ (~Truthy(args.api_key) /\ ~Truthy(env)) =>
               /\ pc = "failed"
               /\ raised = ValueError(<<MsgNoKey>>, None)
               /\ IsConfigurationError(raised)
        /\ (Truthy(args.api_key) \/ Truthy(env)) => raised.msg # <<MsgNoKey>>
    /\ Ready => Truthy(self.api_key)

\* an empty argument, the key taken from the environment
C6_Witness ==
    /\ pc = "ready" /\ args.api_key = "" /\ env = "key-env"
    /\ self.api_key = "key-env"

(***************************************************************************)
(* C7                                                                      *)
(***************************************************************************)
\* C7: with chunk_size <= 0 construction fails with a configuration error;
\* every client past validation, and so every ready one, has chunk_size > 0.
C7_ChunkSize ==
    /\ (pc # "new" /\ args.chunk_size <= 0) =>
           pc = "failed" /\ IsConfigurationError(raised)
    /\ (pc # "new" /\ args.chunk_size <= 0 /\ (Truthy(args.api_key) \/ Truthy(env))) =>
           raised = ValueError(<<MsgChunkSize>>, None)
    /\ (Ready \/ pc = "probing") => self.chunk_size > 0

C7_Witness ==
    /\ pc = "failed" /\ args.chunk_size = 0 /\ args.api_key = "key-arg"
    /\ raised.msg = <<MsgChunkSize>>

(***************************************************************************)
(* C8                                                                      *)
(***************************************************************************)
\* C8: every POST payload has language and lang equal to the configured
\* language, include_nodes false, and text, tokenizer_or_token_counter and
\* chunk_size equal to the call's input and the constructor's arguments.
C8_Payload ==
    request.method = "POST" =>
        /\ DOMAIN request.json = {"text", "tokenizer_or_token_counter", "chunk_size",
                                  "language", "lang", "include_nodes"}
        /\ request.json.language = args.language
        /\ request.json.lang = args.language
        /\ request.json.include_nodes = FALSE
        /\ request.json.text = text
        /\ request.json.tokenizer_or_token_counter = args.tokenizer_or_token_counter
        /\ request.json.chunk_size = args.chunk_size

C8_Witness ==
    /\ pc = "posting"
    /\ args.language = "python" /\ args.tokenizer_or_token_counter = "character"
    /\ text.isList /\ text.text = <<"b", "a">>
    /\ request.json.lang = "python"

(***************************************************************************)
(* C9                                                                      *)
(***************************************************************************)
\* what a call on `t` answered with `resp` raises and returns
Outcome(t, resp) ==
    IF resp.status_code # 200
    THEN <<ValueError(<<MsgApi, resp.status_code, " ", resp.text>>, None), NoReturn>>
    ELSE LET result == ParseResponse(t, resp) IN
         IF result.raised
         THEN <<ValueError(<<MsgParse, result.exc>>, result.exc), NoReturn>>
         ELSE <<NoError, Return(result.value)>>

\* C9: no step of a chunk call, whatever its outcome, takes a ready client
\* out of the ready state, changes its configuration or issues a GET; and
\* the outcome of every call, the first or a later one, is that of its own
\* input and response.
C9_ReadyForGood ==
    /\ [][Ready => /\ Ready'
                   /\ self' = self /\ args' = args /\ env' = env
                   /\ gets' = gets /\ probe' = probe]_vars
    /\ [](Ready => gets = 1 /\ probe = 200)
    /\ [](Done => <<raised, ret>> = Outcome(text, response))

\* a second call has ended with an error and the client is ready
C9_Witness ==
    /\ pc = "ready" /\ calls = 2 /\ raised # NoError /\ gets = 1
    /\ IsResponseParseError(raised)

(***************************************************************************)
(* C10                                                                     *)
(***************************************************************************)
\* C10: a construction that fails with a configuration error has issued no
\* request; a non-positive chunk_size fails before the probe; with the key
\* missing and chunk_size <= 0 the error is the missing-key one.
C10_CheckOrder ==
    /\ (pc = "failed" /\ IsConfigurationError(raised)) =>
           gets = 0 /\ probe = 0 /\ request = NoRequest
    /\ (pc # "new" /\ args.chunk_size <= 0) => gets = 0
    /\ (pc # "new" /\ ~Truthy(args.api_key) /\ ~Truthy(env)) => gets = 0
    /\ (pc # "new" /\ ~Truthy(args.api_key) /\ ~Truthy(env) /\ args.chunk_size <= 0) =>
           raised = ValueError(<<MsgNoKey>>, None)

C10_Witness ==
    /\ pc = "failed" /\ args.api_key = None /\ env = "" /\ args.chunk_size = -1
    /\ raised.msg = <<MsgNoKey>> /\ gets = 0

====
